---- MODULE Spec2Model ----
(***************************************************************************)
(* pydantree: the node registry (core.py), the bootstrap loader            *)
(* (loader.py), the Parser wrapper (parser.py) and the incremental         *)
(* document (incremental.py).                                              *)
(*                                                                         *)
(* A str is a sequence of code points, a bytes object a sequence of byte   *)
(* values.  Spec is the registry / bootstrap / materializer machine,       *)
(* SpecDoc the ParsedDocument machine, SpecPoint _point_for_byte on its    *)
(* own, SpecTree the structural edits and field accessors on node          *)
(* objects, SpecGen the code generator (codegen.py).                       *)
(***************************************************************************)
EXTENDS Integers, Sequences, FiniteSets, TLC

\* registry, loaded, sys_modules: TSNode._registry, NodeTypesBootstrap._loaded
\* and the import cache; parsers: the module names Parsers were built with;
\* node: the value the last call returned, <<>> when it returned none;
\* doc, text, tree, root: the ParsedDocument; call: the last call made.
VARIABLES registry, loaded, sys_modules, parsers, node, doc, text, tree, root, call

\* heap: the node objects built outside a parse, by address (SpecTree);
\* node_specs, generator, out_file: the descriptors read from node-types.json,
\* the CodeGenerator object and the written module (SpecGen).
VARIABLES heap, node_specs, generator, out_file

\* methods: the methods list of a PyClass; assignment: the PyAssignment the
\* program holds, <<>> when it holds none (SpecPy).
VARIABLES methods, assignment

vars == <<registry, loaded, sys_modules, parsers, node, doc, text, tree, root, call,
          heap, node_specs, generator, out_file, methods, assignment>>

None == "None"

(* ------------------------------ bounds --------------------------------- *)
MaxLen == 2
MaxOff == 3
MaxNewLen == 1
MaxPendingEdits == 1
MaxRepeat == 2
MaxParsers == 2
MaxObjects == 6
MaxSpecs == 2
MaxPasses == 2
MaxIndex == 2

(* ------------------------- str / bytes helpers ------------------------- *)
\* b"\n"
NL == 10

\* The code points texts are drawn from: "a", "\n" and U+00E9 (two bytes in
\* UTF-8, so that byte offsets and character offsets differ).
Chars == {97, NL, 233}

Min(a, b) == IF a < b THEN a ELSE b

\* All strings over Chars of length 0..n.
Strs(n) == UNION {[1..k -> Chars] : k \in 0..n}

\* str.encode(): UTF-8, one byte below 128, two bytes for U+00E9.
RECURSIVE encode(_)
encode(s) ==
    IF s = <<>> THEN <<>>
    ELSE (IF Head(s) < 128 THEN <<Head(s)>> ELSE <<195, 169>>) \o encode(Tail(s))

\* bytes.decode(errors="ignore"): a byte that does not start or complete a
\* well-formed sequence is dropped.
RECURSIVE decode(_)
decode(b) ==
    IF b = <<>> THEN <<>>
    ELSE IF Head(b) < 128 THEN <<Head(b)>> \o decode(Tail(b))
    ELSE IF Head(b) = 195 /\ Len(b) >= 2 /\ b[2] = 169
         THEN <<233>> \o decode(Tail(Tail(b)))
    ELSE decode(Tail(b))

\* The texts an edit inserts: "", "a", "aa", ...
NewTexts == UNION {[1..k -> {97}] : k \in 0..MaxNewLen}

\* seq[lo:hi] for non-negative lo, hi (Python clamps both to the length).
PySlice(s, lo, hi) ==
    LET l == Min(lo, Len(s))
        h == Min(hi, Len(s))
    IN  IF l >= h THEN <<>> ELSE SubSeq(s, l + 1, h)

\* seq[lo:]
PySliceFrom(s, lo) == PySlice(s, lo, Len(s))

\* bytes.count(b"\n", 0, end)
RECURSIVE BytesCount(_, _)
BytesCount(buffer, end) ==
    LET h == Min(end, Len(buffer))
    IN  IF h = 0 THEN 0
        ELSE (IF buffer[h] = NL THEN 1 ELSE 0) + BytesCount(buffer, h - 1)

\* bytes.rfind(b"\n", 0, end): highest 0-based index below end, or -1.
RECURSIVE BytesRFind(_, _)
BytesRFind(buffer, end) ==
    LET h == Min(end, Len(buffer))
    IN  IF h = 0 THEN -1
        ELSE IF buffer[h] = NL THEN h - 1
        ELSE BytesRFind(buffer, h - 1)

point_for_byte_incl(byte_pos, buffer) ==
    LET row == BytesCount(buffer, byte_pos)
        last_nl == BytesRFind(buffer, byte_pos + 1)
        column == byte_pos - (IF last_nl # -1 THEN last_nl + 1 ELSE 0)
    IN  <<row, column>>

\* _point_for_byte(byte_pos, buffer)
point_for_byte(byte_pos, buffer) ==
    LET row == BytesCount(buffer, byte_pos)
        last_nl == BytesRFind(buffer, byte_pos)
        column == byte_pos - (IF last_nl # -1 THEN last_nl + 1 ELSE 0)
    IN  <<row, column>>

(* --------------------------- TSNode (core.py) -------------------------- *)
\* The universal base class.
BaseClass == "TSNode"

\* dict.get(key, default)
DictGet(d, key, default) == IF key \in DOMAIN d THEN d[key] ELSE default

RECURSIVE from_tree_sitter(_, _, _)

from_tree_sitter_stop(reg, raw, text_bytes) ==
    LET known == raw.type \in DOMAIN reg
        children == IF known
                    THEN [i \in 1..Len(raw.children) |->
                             from_tree_sitter(reg, raw.children[i], text_bytes)]
                    ELSE <<>>
        txt == decode(PySlice(text_bytes, raw.start_byte, raw.end_byte))
    IN  [cls |-> IF known THEN reg[raw.type] ELSE BaseClass,
         type_name |-> raw.type,
         start_byte |-> raw.start_byte,
         end_byte |-> raw.end_byte,
         start_point |-> raw.start_point,
         end_point |-> raw.end_point,
         text |-> txt,
         children |-> children,
         is_named |-> raw.is_named,
         field_name |-> None]

from_tree_sitter_rev(reg, raw, text_bytes) ==
    LET sub_cls == DictGet(reg, raw.type, BaseClass)
        children == [i \in 1..Len(raw.children) |->
                        from_tree_sitter(reg, raw.children[Len(raw.children) + 1 - i],
                                         text_bytes)]
        txt == decode(PySlice(text_bytes, raw.start_byte, raw.end_byte))
    IN  [cls |-> sub_cls,
         type_name |-> raw.type,
         start_byte |-> raw.start_byte,
         end_byte |-> raw.end_byte,
         start_point |-> raw.start_point,
         end_point |-> raw.end_point,
         text |-> txt,
         children |-> children,
         is_named |-> raw.is_named,
         field_name |-> None]

from_tree_sitter_named(reg, raw, text_bytes) ==
    LET sub_cls == DictGet(reg, raw.type, BaseClass)
        children == [i \in 1..Len(raw.children) |->
                        from_tree_sitter(reg, raw.children[i], text_bytes)]
        txt == decode(PySlice(text_bytes, raw.start_byte, raw.end_byte))
    IN  [cls |-> sub_cls,
         type_name |-> raw.type,
         start_byte |-> raw.start_byte,
         end_byte |-> raw.end_byte,
         start_point |-> raw.start_point,
         end_point |-> raw.end_point,
         text |-> txt,
         children |-> children,
         is_named |-> TRUE,
         field_name |-> None]

\* TSNode.from_tree_sitter(node, text_bytes) against the registry reg.
from_tree_sitter(reg, raw, text_bytes) ==
    LET sub_cls == DictGet(reg, raw.type, BaseClass)
        children == [i \in 1..Len(raw.children) |->
                        from_tree_sitter(reg, raw.children[i], text_bytes)]
        txt == decode(PySlice(text_bytes, raw.start_byte, raw.end_byte))
    IN  [cls |-> sub_cls,
         type_name |-> raw.type,
         start_byte |-> raw.start_byte,
         end_byte |-> raw.end_byte,
         start_point |-> raw.start_point,
         end_point |-> raw.end_point,
         text |-> txt,
         children |-> children,
         is_named |-> raw.is_named,
         field_name |-> None]

\* a == b for two nodes.  TSNode defines no __eq__, so the comparison is the
\* one of the pydantic model: same class and equal values in every field,
\* the children compared the same way.
node_eq(a, b) == a = b

\* TSNode.__hash__: what is hashed.
node_hash(n) == <<n.type_name, n.start_byte, n.end_byte>>

(* ------------------ the external parser (tree_sitter) ------------------ *)
\* Number of leading whitespace bytes of a buffer.
RECURSIVE LeadingWs(_)
LeadingWs(b) == IF b = <<>> \/ Head(b) # NL THEN 0 ELSE 1 + LeadingWs(Tail(b))

\* The start offsets the parser may give the root node: the start of the
\* buffer, or the first byte after the leading whitespace (the root's padding).
RootStarts(b) == {0, LeadingWs(b)}

\* (row, column) of a byte offset, as the parser itself counts them.
PointAt(b, p) ==
    LET nls == {i \in 1..Min(p, Len(b)) : b[i] = NL}
        last == IF nls = {} THEN 0 ELSE CHOOSE i \in nls : \A j \in nls : j <= i
    IN  <<Cardinality(nls), p - last>>

\* A raw node as the parser exposes it.
RawNode(type, s, e, sp, ep, named, field, children) ==
    [type |-> type, start_byte |-> s, end_byte |-> e, start_point |-> sp,
     end_point |-> ep, is_named |-> named, field |-> field, children |-> children]

\* The token nodes the parser reports below the root for the bytes from
\* offset p on: one "identifier" per character, none for a newline.
RECURSIVE RawTokens(_, _)
RawTokens(b, p) ==
    IF p >= Len(b) THEN <<>>
    ELSE IF b[p + 1] = NL THEN RawTokens(b, p + 1)
    ELSE LET e == IF b[p + 1] < 128 THEN p + 1 ELSE Min(p + 2, Len(b))
         IN  <<RawNode("identifier", p, e, PointAt(b, p), PointAt(b, e),
                       TRUE, None, <<>>)>> \o RawTokens(b, e)

\* parser._parser.parse(byte_text[, old_tree]) when it returns: a fresh Tree
\* for byte_text whose root node starts at start and has the tokens as
\* children.
TSParse(byte_text, start) ==
    [src |-> byte_text,
     edits |-> 0,
     root_node |-> RawNode("module", start, Len(byte_text),
                           PointAt(byte_text, start),
                           PointAt(byte_text, Len(byte_text)),
                           TRUE, None, RawTokens(byte_text, start))]

\* tree.edit(...) when it returns: the Tree object is adjusted in place.
TSTreeEdit(t) == [t EXCEPT !.edits = @ + 1]

(* ------------------------- the registry (core.py) ---------------------- *)
EmptyDict == [k \in {} |-> None]

register_subclasses_replace(reg, mapping) == mapping

register_subclasses_toggle(reg, mapping) ==
    [k \in (DOMAIN reg \cup DOMAIN mapping) \ (DOMAIN reg \cap DOMAIN mapping) |->
        IF k \in DOMAIN mapping THEN mapping[k] ELSE reg[k]]

\* TSNode.register_subclasses(mapping): cls._registry.update(mapping)
register_subclasses(reg, mapping) ==
    [k \in DOMAIN reg \cup DOMAIN mapping |->
        IF k \in DOMAIN mapping THEN mapping[k] ELSE reg[k]]

(* ------------------- generated modules and the importer ---------------- *)
\* The names a caller may pass as module_name.
ModuleNames == {"nodes_a", "nodes_b", "pkg.nodes_c", "bare", "missing"}

\* The modules the import system finds.  "bare" is a file without NODE_MAP,
\* "pkg" a plain package, "missing" is on no path.
OnDisk == {"nodes_a", "nodes_b", "pkg", "pkg.nodes_c", "bare"}

\* The modules __import__(name) has to load, outermost package first.
ImportPath(name) == IF name = "pkg.nodes_c" THEN <<"pkg", "pkg.nodes_c">> ELSE <<name>>

\* NODE_MAP of each generated module (a module written by generate_module).
NodeMapOf ==
    [m \in {"nodes_a", "nodes_b", "pkg.nodes_c"} |->
        CASE m = "nodes_a" ->
                ("module" :> "ModuleNode") @@ ("identifier" :> "IdentifierNode")
          [] m = "nodes_b" ->
                ("identifier" :> "NameNode") @@ ("source_file" :> "SourceFileNode")
          [] OTHER -> ("program" :> "ProgramNode")]

\* hasattr(mod, "NODE_MAP")
HasNodeMap(m) == m \in DOMAIN NodeMapOf

\* Executing a module body on its first import.  A generated module ends with
\* TSNode.register_subclasses(NODE_MAP).
ExecModule(m, st) ==
    [st EXCEPT !.sys_modules = @ \cup {m},
               !.registry = IF HasNodeMap(m)
                            THEN register_subclasses(@, NodeMapOf[m]) ELSE @,
               !.trace = IF HasNodeMap(m)
                         THEN Append(@, <<"register", NodeMapOf[m]>>) ELSE @]

\* __import__(module_name): loads every module on the path that is not in
\* sys.modules yet and returns the top-level one; ModuleNotFoundError when
\* one of them is not found.
RECURSIVE ImportFrom(_, _)
ImportFrom(path, st) ==
    IF path = <<>> THEN [st EXCEPT !.found = TRUE]
    ELSE IF Head(path) \notin OnDisk THEN [st EXCEPT !.found = FALSE]
    ELSE IF Head(path) \in st.sys_modules THEN ImportFrom(Tail(path), st)
    ELSE ImportFrom(Tail(path), ExecModule(Head(path), st))

PyImport(module_name, st) ==
    [ImportFrom(ImportPath(module_name),
                [st EXCEPT !.trace = Append(@, <<"import", module_name>>)])
        EXCEPT !.mod = Head(ImportPath(module_name))]

(* --------------------- NodeTypesBootstrap (loader.py) ------------------ *)
\* The process state a call starts from.
Proc(reg, ld, mods) ==
    [registry |-> reg, loaded |-> ld, sys_modules |-> mods,
     trace |-> <<>>, found |-> TRUE, mod |-> None, outcome |-> "ok"]

EnsureFrom(module_name, st) ==
    LET imp == PyImport(module_name, st)
    IN  IF ~imp.found THEN [imp EXCEPT !.outcome = "RuntimeError"]
        ELSE IF ~HasNodeMap(imp.mod) THEN [imp EXCEPT !.outcome = "RuntimeError"]
        ELSE [imp EXCEPT !.registry = register_subclasses(@, NodeMapOf[imp.mod]),
                         !.trace = Append(@, <<"register", NodeMapOf[imp.mod]>>),
                         !.loaded = TRUE]

ensure_unguarded(module_name, st) == EnsureFrom(module_name, st)

\* NodeTypesBootstrap.ensure(module_name)
ensure(module_name, st) ==
    IF st.loaded THEN st
    ELSE EnsureFrom(module_name, st)

(* ---------------------- ParsedDocument (incremental.py) ---------------- *)
\* What the external parser does during one call of edit or create: whether
\* tree.edit and parse return or raise, and where the new root node starts.
ParserRuns(byte_text) ==
    {r \in [edit_ok : BOOLEAN, parse_ok : BOOLEAN, root_start : RootStarts(byte_text)] :
        /\ ~r.edit_ok => ~r.parse_ok
        /\ ~r.parse_ok => r.root_start = 0}

\* text[:start_byte] + new_text + text[old_end_byte:]
Splice(txt, start_byte, old_end_byte, new_text) ==
    PySlice(txt, 0, start_byte) \o new_text \o PySliceFrom(txt, old_end_byte)

edit_points_late(reg, d, start_byte, old_end_byte, new_end_byte, new_text, run) ==
    LET new_str == Splice(d.text, start_byte, old_end_byte, new_text)
        byte_text == encode(new_str)
        start_pt == point_for_byte(start_byte, byte_text)
        old_end_pt == point_for_byte(old_end_byte, byte_text)
        new_end_pt == point_for_byte(new_end_byte, byte_text)
        pts == <<start_pt, old_end_pt, new_end_pt>>
        new_tree == TSParse(byte_text, run.root_start)
    IN  IF ~run.edit_ok
        THEN [text |-> d.text, tree |-> d.tree, root |-> d.root, pts |-> pts,
              outcome |-> "tree_edit_raised", trace |-> <<>>]
        ELSE IF ~run.parse_ok
        THEN [text |-> new_str, tree |-> TSTreeEdit(d.tree), root |-> d.root,
              pts |-> pts, outcome |-> "parse_raised",
              trace |-> <<<<"tree.edit", d.tree.src, pts>>, <<"splice", new_str>>>>]
        ELSE [text |-> new_str, tree |-> new_tree,
              root |-> from_tree_sitter(reg, new_tree.root_node, byte_text),
              pts |-> pts, outcome |-> "ok",
              trace |-> <<<<"tree.edit", d.tree.src, pts>>, <<"splice", new_str>>,
                          <<"parse", byte_text, TSTreeEdit(d.tree).src>>,
                          <<"materialize", new_tree.src>>>>]

\* ParsedDocument.edit(start_byte, old_end_byte, new_end_byte, new_text) on
\* the document d = [text, tree, root], the parser behaving as run.  trace
\* lists the steps taken: tree.edit with the tree it is called on and its
\* points, the splice with the text it leaves, the parse with its buffer and
\* its reuse hint, the materialization with the tree it reads; a tree is
\* named by the bytes it was parsed from.
edit(reg, d, start_byte, old_end_byte, new_end_byte, new_text, run) ==
    LET buf == encode(d.text)
        start_pt == point_for_byte(start_byte, buf)
        old_end_pt == point_for_byte(old_end_byte, buf)
        new_end_pt == point_for_byte(new_end_byte, buf)
        pts == <<start_pt, old_end_pt, new_end_pt>>
        new_str == Splice(d.text, start_byte, old_end_byte, new_text)
        byte_text == encode(new_str)
        new_tree == TSParse(byte_text, run.root_start)
    IN  IF ~run.edit_ok
        THEN [text |-> d.text, tree |-> d.tree, root |-> d.root, pts |-> pts,
              outcome |-> "tree_edit_raised", trace |-> <<>>]
        ELSE IF ~run.parse_ok
        THEN [text |-> new_str, tree |-> TSTreeEdit(d.tree), root |-> d.root,
              pts |-> pts, outcome |-> "parse_raised",
              trace |-> <<<<"tree.edit", d.tree.src, pts>>, <<"splice", new_str>>>>]
        ELSE [text |-> new_str, tree |-> new_tree,
              root |-> from_tree_sitter(reg, new_tree.root_node, byte_text),
              pts |-> pts, outcome |-> "ok",
              trace |-> <<<<"tree.edit", d.tree.src, pts>>, <<"splice", new_str>>,
                          <<"parse", byte_text, TSTreeEdit(d.tree).src>>,
                          <<"materialize", new_tree.src>>>>]

\* ParsedDocument.create(text, parser) / _populate_tree_and_root
create(reg, txt, run) ==
    LET byte_text == encode(txt)
        new_tree == TSParse(byte_text, run.root_start)
    IN  IF ~run.parse_ok
        THEN [outcome |-> "parse_raised", trace |-> <<>>]
        ELSE [text |-> txt, tree |-> new_tree,
              root |-> from_tree_sitter(reg, new_tree.root_node, byte_text),
              outcome |-> "ok", trace |-> <<"parse", "materialize">>]

(* ------------------------------ the calls ------------------------------ *)
\* The record of the last call made: what was called, with which arguments,
\* how it ended, the external effects it had, and how many times in a row it
\* has been made.
Call(op, args, outcome, trace, pts) ==
    [op |-> op, args |-> args, outcome |-> outcome, trace |-> trace, pts |-> pts,
     rep |-> IF call.op = op /\ call.args = args
             THEN Min(call.rep + 1, MaxRepeat) ELSE 1]

NoCall == [op |-> "start", args |-> <<>>, outcome |-> "ok", trace |-> <<>>,
           pts |-> <<>>, rep |-> 1]

docvars == <<doc, text, tree, root>>
procvars == <<registry, loaded, sys_modules, parsers, node>>
treevars == <<heap>>
genvars == <<node_specs, generator, out_file>>
pyvars == <<methods, assignment>>

\* The mappings a caller registers directly.
Mappings == {NodeMapOf["nodes_a"], NodeMapOf["nodes_b"]}

RegisterSubclasses(mapping) ==
    /\ registry' = register_subclasses(registry, mapping)
    /\ call' = Call("register_subclasses", <<mapping>>, "ok",
                    <<<<"register", mapping>>>>, <<>>)
    /\ node' = <<>>
    /\ UNCHANGED <<pyvars, loaded, sys_modules, parsers, docvars, treevars, genvars>>

Ensure(module_name) ==
    LET r == ensure(module_name, Proc(registry, loaded, sys_modules))
    IN  /\ registry' = r.registry
        /\ loaded' = r.loaded
        /\ sys_modules' = r.sys_modules
        /\ call' = Call("ensure", <<module_name>>, r.outcome, r.trace, <<>>)
        /\ node' = <<>>
        /\ UNCHANGED <<pyvars, parsers, docvars, treevars, genvars>>

\* Parser(language, module_name=module_name)
NewParser(module_name) ==
    LET r == ensure(module_name, Proc(registry, loaded, sys_modules))
    IN  /\ Cardinality(parsers \cup {module_name}) <= MaxParsers
        /\ registry' = r.registry
        /\ loaded' = r.loaded
        /\ sys_modules' = r.sys_modules
        /\ parsers' = IF r.outcome = "ok" THEN parsers \cup {module_name} ELSE parsers
        /\ call' = Call("Parser", <<module_name>>, r.outcome, r.trace, <<>>)
        /\ node' = <<>>
        /\ UNCHANGED <<pyvars, docvars, treevars, genvars>>

\* The grammar types the parser reports; no generated module maps "comment".
RawTypes == {"module", "comment"}

\* The text parsed through a Parser: "a\n" followed by U+00E9.
ParseTexts == {<<97, NL, 233>>}

\* What the parser exposes about a child besides its type and range: whether
\* it is a named node, and the field of its parent it fills (None when it
\* fills none).
LeafTags ==
    {[named |-> TRUE, field |-> None],
     [named |-> TRUE, field |-> "name"],
     [named |-> FALSE, field |-> "operator"]}

RawPlainLeaves(b, s, e) ==
    {RawNode(t, s, e, PointAt(b, s), PointAt(b, e), TRUE, None, <<>>) : t \in RawTypes}

RawLeaves(b, s, e) ==
    {RawNode(t, s, e, PointAt(b, s), PointAt(b, e), tag.named, tag.field, <<>>) :
        t \in RawTypes, tag \in LeafTags}

RawKids(b, s, e) ==
    RawLeaves(b, s, e) \cup
    {RawNode(t, s, e, PointAt(b, s), PointAt(b, e), TRUE, None, <<g>>) :
        t \in RawTypes, g \in RawPlainLeaves(b, s, e)}

\* The raw trees the external parser may return for the buffer b: a root over
\* the whole buffer with no child, one child (itself with at most one child)
\* or two leaf children.
RawTrees(b) ==
    {RawNode(t, 0, Len(b), PointAt(b, 0), PointAt(b, Len(b)), TRUE, None, kids) :
        t \in RawTypes,
        kids \in {<<>>} \cup {<<k>> : k \in RawKids(b, 0, 1)}
                 \cup {<<k1, k2>> : k1 \in {k \in RawLeaves(b, 0, 1) : k.type = "comment"},
                                    k2 \in {k \in RawLeaves(b, 1, Len(b)) : k.type = "module"}}}

\* Parser.parse(text) through one of the Parsers built so far, the external
\* parser returning the raw tree raw
Parse(txt, raw) ==
    /\ parsers # {}
    /\ node' = <<from_tree_sitter(registry, raw, encode(txt))>>
    /\ call' = Call("parse", <<txt, raw>>, "ok",
                    <<"parse", "materialize">>, <<>>)
    /\ UNCHANGED <<pyvars, registry, loaded, sys_modules, parsers, docvars, treevars, genvars>>

\* ParsedDocument.create(text, parser)
Create(txt, run) ==
    /\ doc = "none"
    /\ \E r \in {create(registry, txt, run)} :
        /\ IF r.outcome = "ok"
           THEN /\ doc' = "constructed"
                /\ text' = r.text
                /\ tree' = r.tree
                /\ root' = r.root
           ELSE UNCHANGED docvars
        /\ call' = Call("create", <<txt>>, r.outcome, r.trace, <<>>)
        /\ UNCHANGED <<pyvars, procvars, treevars, genvars>>

\* document.edit(start_byte, old_end_byte, new_end_byte, new_text)
Edit(start_byte, old_end_byte, new_end_byte, new_text, run) ==
    /\ doc = "constructed"
    /\ \E r \in {edit(registry, [text |-> text, tree |-> tree, root |-> root],
                      start_byte, old_end_byte, new_end_byte, new_text, run)} :
        /\ Len(r.text) <= MaxLen
        /\ r.tree.edits <= MaxPendingEdits
        /\ text' = r.text
        /\ tree' = r.tree
        /\ root' = r.root
        /\ call' = Call("edit", <<start_byte, old_end_byte, new_end_byte, new_text>>,
                        r.outcome, r.trace, r.pts)
        /\ UNCHANGED <<pyvars, doc, procvars, treevars, genvars>>

\* No descriptors read, no generator built, nothing written.
NoGenerator == [state |-> "none"]

NoGeneration ==
    /\ node_specs = <<>>
    /\ generator = NoGenerator
    /\ out_file = <<>>

\* No PyClass and no PyAssignment built.
NoPyObjects ==
    /\ methods = <<>>
    /\ assignment = <<>>

(* --------------------------- specifications ---------------------------- *)
\* The process at start: nothing imported, nothing registered.
Init ==
    /\ registry = EmptyDict
    /\ loaded = FALSE
    /\ sys_modules = {}
    /\ parsers = {}
    /\ node = <<>>
    /\ doc = "none"
    /\ text = <<>>
    /\ tree = None
    /\ root = None
    /\ call = NoCall
    /\ heap = <<>>
    /\ NoGeneration
    /\ NoPyObjects

Next ==
    \/ \E mapping \in Mappings : RegisterSubclasses(mapping)
    \/ \E m \in ModuleNames : Ensure(m)
    \/ \E m \in ModuleNames : NewParser(m)
    \/ \E txt \in ParseTexts :
          \E raw \in RawTrees(encode(txt)) : Parse(txt, raw)

Spec == Init /\ [][Next]_vars

\* A process whose Parser was built with the generated module "nodes_a",
\* before any document exists.
InitDoc ==
    /\ registry = NodeMapOf["nodes_a"]
    /\ loaded = TRUE
    /\ sys_modules = {"nodes_a"}
    /\ parsers = {"nodes_a"}
    /\ node = <<>>
    /\ doc = "none"
    /\ text = <<>>
    /\ tree = None
    /\ root = None
    /\ call = NoCall
    /\ heap = <<>>
    /\ NoGeneration
    /\ NoPyObjects

NextDoc ==
    \/ /\ doc = "none"
       /\ \E txt \in Strs(MaxLen) :
             \E run \in ParserRuns(encode(txt)) : run.edit_ok /\ Create(txt, run)
    \/ /\ doc = "constructed"
       /\ \E s \in 0..MaxOff, e \in 0..MaxOff, new_text \in NewTexts :
             \E run \in ParserRuns(encode(Splice(text, s, e, new_text))) :
                Edit(s, e, s + Len(encode(new_text)), new_text, run)

SpecDoc == InitDoc /\ [][NextDoc]_vars

\* _point_for_byte(byte_pos, buffer) called on its own, buffer being the
\* encoded text.
PointForByte(byte_pos) ==
    /\ call' = Call("_point_for_byte", <<byte_pos>>, "ok", <<>>,
                    <<point_for_byte(byte_pos, encode(text))>>)
    /\ UNCHANGED <<pyvars, procvars, docvars, treevars, genvars>>

InitPoint ==
    /\ registry = EmptyDict
    /\ loaded = FALSE
    /\ sys_modules = {}
    /\ parsers = {}
    /\ node = <<>>
    /\ doc = "none"
    /\ text \in Strs(MaxLen)
    /\ tree = None
    /\ root = None
    /\ call = NoCall
    /\ heap = <<>>
    /\ NoGeneration
    /\ NoPyObjects

NextPoint == \E byte_pos \in 0..MaxOff + 1 : PointForByte(byte_pos)

SpecPoint == InitPoint /\ [][NextPoint]_vars

(* ------------- node objects and structural edits (core.py) ------------- *)
\* A node object built by its constructor.
Obj(cls, type_name, s, e, txt, field, kids) ==
    [cls |-> cls, type_name |-> type_name, start_byte |-> s, end_byte |-> e,
     text |-> txt, is_named |-> TRUE, field_name |-> field, children |-> kids]

\* The value of the object at address id: its fields, the children by value.
RECURSIVE Value(_, _)
Value(h, id) ==
    [h[id] EXCEPT !.children = [i \in 1..Len(@) |-> Value(h, @[i])]]

\* list.insert(index, x)
list_insert(l, index, x) ==
    LET n == Len(l)
        i0 == IF index < 0 THEN index + n ELSE index
        i == IF i0 < 0 THEN 0 ELSE Min(i0, n)
    IN  SubSeq(l, 1, i) \o <<x>> \o SubSeq(l, i + 1, n)

model_copy_inplace(h, self, new_children) ==
    [heap |-> [h EXCEPT ![self].children = new_children], result |-> self]

\* self.model_copy(update={"children": new_children}): a new object with the
\* field values of self and the given children list.
model_copy(h, self, new_children) ==
    [heap |-> Append(h, [h[self] EXCEPT !.children = new_children]),
     result |-> Len(h) + 1]

\* TSNode.insert_child(index, new_child), and the generated helper
insert_child(h, self, index, new_child) ==
    model_copy(h, self, list_insert(h[self].children, index, new_child))

\* TSNode.replace_child(old_child, new_child), and the generated helper
replace_child(h, self, old_child, new_child) ==
    model_copy(h, self,
               [i \in 1..Len(h[self].children) |->
                   IF node_eq(Value(h, h[self].children[i]), Value(h, old_child))
                   THEN new_child ELSE h[self].children[i]])

\* TSNode.delete_child(child), and the generated helper
delete_child(h, self, child) ==
    model_copy(h, self,
               SelectSeq(h[self].children,
                         LAMBDA c : ~node_eq(Value(h, c), Value(h, child))))

field_property_last(h, self, field_name, is_multiple, is_required) ==
    LET tagged == SelectSeq(h[self].children, LAMBDA c : h[c].field_name = field_name)
    IN  IF is_multiple THEN [outcome |-> "ok", result |-> tagged]
        ELSE IF tagged # <<>>
        THEN [outcome |-> "ok", result |-> <<tagged[Len(tagged)]>>]
        ELSE [outcome |-> "ok", result |-> <<>>]

\* The property generated for a field (_generate_field_property), read on the
\* node self: the children returned, none standing for None.
field_property(h, self, field_name, is_multiple, is_required) ==
    LET tagged == SelectSeq(h[self].children, LAMBDA c : h[c].field_name = field_name)
    IN  IF is_multiple THEN [outcome |-> "ok", result |-> tagged]
        ELSE IF tagged # <<>> THEN [outcome |-> "ok", result |-> <<Head(tagged)>>]
        ELSE IF ~is_required THEN [outcome |-> "ok", result |-> <<>>]
        ELSE [outcome |-> "ValueError", result |-> <<>>]

otherprocvars == <<registry, loaded, sys_modules, parsers>>

InsertChild(self, index, new_child) ==
    /\ Len(heap) < MaxObjects
    /\ \E r \in {insert_child(heap, self, index, new_child)} :
          /\ heap' = r.heap
          /\ node' = <<r.result>>
    /\ call' = Call("insert_child", <<self, index, new_child>>, "ok", <<>>, <<>>)
    /\ UNCHANGED <<pyvars, otherprocvars, docvars, genvars>>

ReplaceChild(self, old_child, new_child) ==
    /\ Len(heap) < MaxObjects
    /\ \E r \in {replace_child(heap, self, old_child, new_child)} :
          /\ heap' = r.heap
          /\ node' = <<r.result>>
    /\ call' = Call("replace_child", <<self, old_child, new_child>>, "ok", <<>>, <<>>)
    /\ UNCHANGED <<pyvars, otherprocvars, docvars, genvars>>

DeleteChild(self, child) ==
    /\ Len(heap) < MaxObjects
    /\ \E r \in {delete_child(heap, self, child)} :
          /\ heap' = r.heap
          /\ node' = <<r.result>>
    /\ call' = Call("delete_child", <<self, child>>, "ok", <<>>, <<>>)
    /\ UNCHANGED <<pyvars, otherprocvars, docvars, genvars>>

\* node.<field_name> on a generated class whose field is declared with the
\* given multiplicity and optionality.
FieldProperty(self, field_name, is_multiple, is_required) ==
    /\ \E r \in {field_property(heap, self, field_name, is_multiple, is_required)} :
          /\ node' = r.result
          /\ call' = Call("field_property",
                          <<self, field_name, is_multiple, is_required>>,
                          r.outcome, <<>>, <<>>)
    /\ UNCHANGED <<pyvars, otherprocvars, heap, docvars, genvars>>

\* The fields a generated class declares.
FieldNames == {"name", "body"}

\* Four leaves and a node over some of them: two leaves tagged with the field
\* "name", an untagged one, and a fourth object equal in value to the first.
LeafObjects ==
    <<Obj("IdentifierNode", "identifier", 0, 1, <<97>>, "name", <<>>),
      Obj("IdentifierNode", "identifier", 1, 2, <<97>>, "name", <<>>),
      Obj(BaseClass, "comment", 2, 3, <<97>>, None, <<>>),
      Obj("IdentifierNode", "identifier", 0, 1, <<97>>, "name", <<>>)>>

InitTree ==
    /\ registry = EmptyDict
    /\ loaded = FALSE
    /\ sys_modules = {}
    /\ parsers = {}
    /\ node = <<>>
    /\ doc = "none"
    /\ text = <<>>
    /\ tree = None
    /\ root = None
    /\ call = NoCall
    /\ \E kids \in UNION {[1..k -> 1..Len(LeafObjects)] : k \in 0..2} :
          heap = Append(LeafObjects,
                        Obj("FunctionDefinitionNode", "function_definition",
                            0, 3, <<97, 97, 97>>, None, kids))
    /\ NoGeneration
    /\ NoPyObjects

NextTree ==
    \/ \E self \in 1..Len(heap), index \in -1..MaxIndex, new_child \in 1..Len(heap) :
          InsertChild(self, index, new_child)
    \/ \E self \in 1..Len(heap), old_child \in 1..Len(heap), new_child \in 1..Len(heap) :
          ReplaceChild(self, old_child, new_child)
    \/ \E self \in 1..Len(heap), child \in 1..Len(heap) : DeleteChild(self, child)
    \/ \E self \in 1..Len(heap), f \in FieldNames, m \in BOOLEAN, r \in BOOLEAN :
          FieldProperty(self, f, m, r)

SpecTree == InitTree /\ [][NextTree]_vars

(* ------------------------ code generation (codegen.py) ----------------- *)
\* A str of the generator is a sequence of one-character strings.
\* The grammar type names of the descriptors: "a_b", "a__b", "_",
\* "underscore" and "a_b_token".
TypeNames ==
    {<<"a", "_", "b">>,
     <<"a", "_", "_", "b">>,
     <<"_">>,
     <<"u", "n", "d", "e", "r", "s", "c", "o", "r", "e">>,
     <<"a", "_", "b", "_", "t", "o", "k", "e", "n">>}

\* NameResolver.SYMBOL_MAP, the entries for "_" and "(".
SYMBOL_MAP ==
    (<<"_">> :> <<"U", "n", "d", "e", "r", "s", "c", "o", "r", "e">>)
    @@ (<<"(">> :> <<"L", "e", "f", "t", "P", "a", "r", "e", "n">>)

\* The default token_suffix, "TokenNode".
TokenSuffix == <<"T", "o", "k", "e", "n", "N", "o", "d", "e">>

\* str.upper() and str.lower() of one character.
Upper(c) ==
    CASE c = "a" -> "A" [] c = "b" -> "B" [] c = "c" -> "C" [] c = "d" -> "D"
      [] c = "e" -> "E" [] c = "k" -> "K" [] c = "n" -> "N" [] c = "o" -> "O"
      [] c = "r" -> "R" [] c = "s" -> "S" [] c = "t" -> "T" [] c = "u" -> "U"
      [] OTHER -> c

Lower(c) ==
    CASE c = "A" -> "a" [] c = "B" -> "b" [] c = "T" -> "t" [] c = "U" -> "u"
      [] OTHER -> c

\* word.capitalize()
capitalize(w) ==
    IF w = <<>> THEN <<>>
    ELSE <<Upper(Head(w))>> \o [i \in 1..Len(w) - 1 |-> Lower(w[i + 1])]

\* node_type.split("_")
RECURSIVE split(_)
split(str) ==
    LET at == {i \in 1..Len(str) : str[i] = "_"}
        i == CHOOSE k \in at : \A j \in at : k <= j
    IN  IF at = {} THEN <<str>>
        ELSE <<SubSeq(str, 1, i - 1)>> \o split(SubSeq(str, i + 1, Len(str)))

\* "".join(words)
RECURSIVE join(_)
join(words) == IF words = <<>> THEN <<>> ELSE Head(words) \o join(Tail(words))

\* str(counter)
RECURSIVE str(_)
str(n) ==
    LET digit == <<"0", "1", "2", "3", "4", "5", "6", "7", "8", "9">>
    IN  IF n < 10 THEN <<digit[n + 1]>> ELSE str(n \div 10) \o <<digit[(n % 10) + 1]>>

\* The while loop of resolve: the first of original1, original2, ... not seen.
RECURSIVE Disambiguate(_, _, _)
Disambiguate(original, counter, seen) ==
    IF original \o str(counter) \in seen
    THEN Disambiguate(original, counter + 1, seen)
    ELSE original \o str(counter)

resolve_nodedup(seen, token_suffix, node_type, is_named) ==
    LET base == IF node_type \in DOMAIN SYMBOL_MAP THEN SYMBOL_MAP[node_type]
                ELSE join([i \in 1..Len(split(node_type)) |->
                              capitalize(split(node_type)[i])])
        original == base \o (IF ~is_named THEN token_suffix ELSE <<"N", "o", "d", "e">>)
    IN  [class_name |-> original, seen |-> seen \cup {original}]

\* NameResolver.resolve(node_type, is_named), seen being self.seen
resolve(seen, token_suffix, node_type, is_named) ==
    LET base == IF node_type \in DOMAIN SYMBOL_MAP THEN SYMBOL_MAP[node_type]
                ELSE join([i \in 1..Len(split(node_type)) |->
                              capitalize(split(node_type)[i])])
        original == base \o (IF ~is_named THEN token_suffix ELSE <<"N", "o", "d", "e">>)
        class_name == IF original \in seen THEN Disambiguate(original, 1, seen)
                      ELSE original
    IN  [class_name |-> class_name, seen |-> seen \cup {class_name}]

\* "type" in spec
HasType(spec) == "type" \in DOMAIN spec

\* The keys of {spec["type"]: spec for spec in node_specs}, in the order a
\* dict keeps them: by first occurrence.
RECURSIVE DictKeys(_)
DictKeys(specs) ==
    IF specs = <<>> THEN <<>>
    ELSE LET front == DictKeys(SubSeq(specs, 1, Len(specs) - 1))
             t == specs[Len(specs)].type
         IN  IF \E i \in 1..Len(front) : front[i] = t THEN front ELSE Append(front, t)

\* The value the dict holds for a key: the last descriptor of that type.
DictValue(specs, t) ==
    specs[CHOOSE i \in 1..Len(specs) :
            /\ specs[i].type = t
            /\ \A j \in 1..Len(specs) : specs[j].type = t => j <= i]

\* The edges _build_graph asks for: (subtype, supertype) for the subtypes
\* that are descriptors themselves.
GraphEdges(specs) ==
    LET keys == {specs[j].type : j \in 1..Len(specs)}
    IN  UNION {{<<specs[i].subtypes[k], specs[i].type>> :
                   k \in {n \in 1..Len(specs[i].subtypes) : specs[i].subtypes[n] \in keys}} :
               i \in 1..Len(specs)}

\* InheritanceAnalyzer(node_specs): the graph is a rustworkx DiGraph, whose
\* add_node takes any payload and whose add_edge(parent, child, edge) takes
\* node indices and an edge payload; _build_graph calls add_edge(subtype,
\* supertype) with the two names, which raises TypeError.
InheritanceAnalyzer(specs) ==
    IF \E i \in 1..Len(specs) : ~HasType(specs[i])
    THEN [outcome |-> "KeyError", nodes |-> <<>>]
    ELSE IF GraphEdges(specs) # {}
    THEN [outcome |-> "TypeError", nodes |-> <<>>]
    ELSE [outcome |-> "ok", nodes |-> DictKeys(specs)]

\* InheritanceAnalyzer.get_inheritance_order(): the module binds rustworkx as
\* rx and binds no name nx, so nx.topological_sort raises NameError, and so
\* does the except clause that names nx.NetworkXError.
get_inheritance_order(analyzer) == [outcome |-> "NameError", order |-> <<>>]

\* CodeGenerator(node_specs, token_suffix, base_class)
CodeGenerator(specs, token_suffix, base_class) ==
    LET analyzer == InheritanceAnalyzer(specs)
    IN  IF \E i \in 1..Len(specs) : ~HasType(specs[i])
        THEN [state |-> "none", outcome |-> "KeyError"]
        ELSE IF analyzer.outcome # "ok"
        THEN [state |-> "none", outcome |-> analyzer.outcome]
        ELSE [state |-> "constructed", outcome |-> "ok",
              specs |-> specs, token_suffix |-> token_suffix,
              base_class |-> base_class, analyzer |-> analyzer,
              seen |-> {}, class_names |-> <<>>, passes |-> 0]

\* One step of the loop of _resolve_all_names: class_names is kept as the
\* sequence of names by key, in key order.
RECURSIVE ResolveKeys(_, _, _)
ResolveKeys(g, keys, acc) ==
    IF keys = <<>> THEN acc
    ELSE LET r == resolve(acc.seen, g.token_suffix, Head(keys),
                          DictValue(g.specs, Head(keys)).named)
         IN  ResolveKeys(g, Tail(keys),
                         [seen |-> r.seen,
                          class_names |-> Append(acc.class_names, r.class_name)])

\* CodeGenerator._resolve_all_names()
resolve_all_names(g) ==
    LET r == ResolveKeys(g, DictKeys(g.specs),
                         [seen |-> g.seen, class_names |-> <<>>])
    IN  [g EXCEPT !.seen = r.seen, !.class_names = r.class_names,
                  !.passes = @ + 1]

\* InheritanceAnalyzer.get_parent(node_type): successors of the rustworkx
\* graph takes a node index, and is given the type name, which raises
\* TypeError whether or not the type has a supertype.
get_parent(analyzer, node_type) == [outcome |-> "TypeError", parent |-> <<>>]

\* self.class_names.get(node_type, default)
ClassNameOr(g, node_type, default) ==
    LET keys == IF g.class_names = <<>> THEN <<>> ELSE DictKeys(g.specs)
    IN  IF \E i \in 1..Len(keys) : keys[i] = node_type
        THEN g.class_names[CHOOSE i \in 1..Len(keys) : keys[i] = node_type]
        ELSE default

\* CodeGenerator._generate_class(node_type): the class line, as the class
\* name and the name of the class it derives from.
generate_class(g, node_type) ==
    LET p == get_parent(g.analyzer, node_type)
    IN  IF p.outcome # "ok" THEN [outcome |-> p.outcome, text |-> <<>>]
        ELSE [outcome |-> "ok",
              text |-> <<"class", ClassNameOr(g, node_type, <<>>),
                         IF p.parent # <<>>
                         THEN ClassNameOr(g, p.parent[1], g.base_class)
                         ELSE g.base_class>>]

\* The module text for the types of order: the header, a class and a
\* NODE_MAP line per type, and the registration line.
ModuleText(g, order) ==
    <<<<"NODE_MAP = {}">>>>
    \o [i \in 1..2 * Len(order) |->
          IF i % 2 = 1 THEN generate_class(g, order[(i + 1) \div 2]).text
          ELSE <<"NODE_MAP", order[i \div 2], ClassNameOr(g, order[i \div 2], <<>>)>>]
    \o <<<<"TSNode.register_subclasses(NODE_MAP)">>>>

\* CodeGenerator.generate_module()
generate_module(g) ==
    LET g1 == resolve_all_names(g)
        ord == get_inheritance_order(g1.analyzer)
        failed == {i \in 1..Len(ord.order) :
                      generate_class(g1, ord.order[i]).outcome # "ok"}
    IN  IF ord.outcome # "ok"
        THEN [generator |-> g1, outcome |-> ord.outcome, module |-> <<>>]
        ELSE IF failed # {}
        THEN [generator |-> g1, module |-> <<>>,
              outcome |-> generate_class(g1, ord.order[CHOOSE i \in failed :
                                             \A j \in failed : i <= j]).outcome]
        ELSE [generator |-> g1, outcome |-> "ok",
              module |-> <<ModuleText(g1, ord.order)>>]

\* The literal "TSNode" of _generate_field_property.
TSNodeName == <<"T", "S", "N", "o", "d", "e">>

\* " | ".join(names)
RECURSIVE join_bar(_)
join_bar(names) ==
    IF names = <<>> THEN <<>>
    ELSE IF Len(names) = 1 THEN Head(names)
    ELSE Head(names) \o <<" ", "|", " ">> \o join_bar(Tail(names))

\* The wrapping of a type hint: List[...] when multiple, then Optional[...]
\* when not required.
wrap_hint(hint, is_multiple, is_required) ==
    LET listed == IF is_multiple
                  THEN <<"L", "i", "s", "t", "[">> \o hint \o <<"]">> ELSE hint
    IN  IF ~is_required
        THEN <<"O", "p", "t", "i", "o", "n", "a", "l", "[">> \o listed \o <<"]">>
        ELSE listed

\* The type annotation _generate_field_property(field_name, field_spec)
\* builds, types being the type names of field_spec["types"].
generate_field_property(g, types, is_multiple, is_required) ==
    LET type_hint ==
            IF types = <<>> THEN TSNodeName
            ELSE IF Len(types) = 1 THEN ClassNameOr(g, types[1], TSNodeName)
            ELSE join_bar([i \in 1..Len(types) |-> ClassNameOr(g, types[i], TSNodeName)])
    IN  wrap_hint(type_hint, is_multiple, is_required)

\* generator.py: LOOKUP, the entries for "_" and "(".
LOOKUP ==
    (<<"_">> :> <<"u", "n", "d", "e", "r", "s", "c", "o", "r", "e">>)
    @@ (<<"(">> :> <<"l", "e", "f", "t", "_", "p", "a", "r", "e", "n">>)

\* generator.py: _snake_to_camel(name)
snake_to_camel(name) ==
    IF name = <<"_">> THEN <<"U", "n", "d", "e", "r", "s", "c", "o", "r", "e">>
    ELSE join([i \in 1..Len(split(name)) |-> capitalize(split(name)[i])])
         \o <<"N", "o", "d", "e">>

\* generator.py: NodeNameResolver(lookup=LOOKUP)(raw_name)
NodeNameResolver(raw_name) ==
    snake_to_camel(IF raw_name \in DOMAIN LOOKUP THEN LOOKUP[raw_name] ELSE raw_name)

\* The lines the loop of generator.py's generate_from_node_types appends for
\* the descriptors before the first one that has no "type" key.
RECURSIVE ClassLines(_)
ClassLines(specs) ==
    IF specs = <<>> \/ ~HasType(Head(specs)) THEN <<>>
    ELSE <<<<"class", NodeNameResolver(Head(specs).type), TSNodeName>>,
           <<"NODE_MAP", Head(specs).type, NodeNameResolver(Head(specs).type)>>>>
         \o ClassLines(Tail(specs))

generator_generate_from_node_types_partial(specs, file) ==
    IF \E i \in 1..Len(specs) : ~HasType(specs[i])
    THEN [outcome |-> "KeyError",
          file |-> <<<<<<"NODE_MAP = {}">>>> \o ClassLines(specs)>>]
    ELSE [outcome |-> "ok",
          file |-> <<<<<<"NODE_MAP = {}">>>> \o ClassLines(specs)
                     \o <<<<"TSNode.register_subclasses(NODE_MAP)">>>>>>]

\* generator.py: generate_from_node_types(json_path, out_path), file being
\* what out_path holds before the call: the outcome and what out_path holds
\* afterwards. spec["type"] raises KeyError inside the loop, and the one
\* write_text comes after the loop.
generator_generate_from_node_types(specs, file) ==
    IF \E i \in 1..Len(specs) : ~HasType(specs[i])
    THEN [outcome |-> "KeyError", file |-> file]
    ELSE [outcome |-> "ok",
          file |-> <<<<<<"NODE_MAP = {}">>>> \o ClassLines(specs)
                     \o <<<<"TSNode.register_subclasses(NODE_MAP)">>>>>>]

\* generate_from_node_types(json_path, out_path): the outcome and what is
\* written to out_path (nothing when it raises).
generate_from_node_types(specs, token_suffix, base_class) ==
    LET g == CodeGenerator(specs, token_suffix, base_class)
        m == generate_module(g)
    IN  IF g.state # "constructed" THEN [outcome |-> g.outcome, module |-> <<>>]
        ELSE [outcome |-> m.outcome, module |-> m.module]

\* The descriptors of node-types.json: each with at most one subtype.
Descriptors ==
    [type : TypeNames, named : BOOLEAN,
     subtypes : {<<>>, <<<<"a", "_", "b">>>>, <<<<"a", "_", "_", "b">>>>}]

\* A descriptor of node-types.json that has no "type" key.
UntypedDescriptors == {[named |-> TRUE, subtypes |-> <<>>]}

\* The specifications read: up to MaxSpecs descriptors, no type twice.
NodeSpecs ==
    {sp \in UNION {[1..k -> Descriptors \cup UntypedDescriptors] : k \in 1..MaxSpecs} :
        \A i, j \in 1..Len(sp) :
            (HasType(sp[i]) /\ HasType(sp[j]) /\ sp[i].type = sp[j].type) => i = j}

\* What out_path holds before a generation: nothing, or an earlier module.
OutFiles == {<<>>, <<<<<<"NODE_MAP = {}">>>>>>}

\* The base_class a generator is configured with: the default "TSNode", or
\* "Base".
BaseClasses == {TSNodeName, <<"B", "a", "s", "e">>}

\* The field descriptors: their type names are descriptor types or "x",
\* which no descriptor has.
FieldSpecs ==
    {[types |-> <<>>, multiple |-> FALSE, required |-> TRUE],
     [types |-> <<<<"a", "_", "b">>>>, multiple |-> FALSE, required |-> FALSE],
     [types |-> <<<<"x">>>>, multiple |-> TRUE, required |-> FALSE],
     [types |-> <<<<"a", "_", "b">>, <<"x">>>>, multiple |-> FALSE, required |-> TRUE]}

\* The types get_parent is asked about.
ParentQueries == {<<"a", "_", "b">>, <<"_">>}

\* generator = CodeGenerator(node_specs, base_class=base_class)
NewCodeGenerator ==
    /\ generator.state = "none"
    /\ \E base_class \in BaseClasses :
       \E g \in {CodeGenerator(node_specs, TokenSuffix, base_class)} :
          /\ generator' = IF g.state = "constructed" THEN g ELSE generator
          /\ call' = Call("CodeGenerator", <<base_class>>, g.outcome, <<>>, <<>>)
    /\ node' = <<>>
    /\ UNCHANGED <<pyvars, otherprocvars, docvars, treevars, node_specs, out_file>>

\* generator._resolve_all_names()
ResolveAllNames ==
    /\ generator.state = "constructed"
    /\ generator.passes < MaxPasses
    /\ generator' = resolve_all_names(generator)
    /\ call' = Call("_resolve_all_names", <<>>, "ok", <<>>, <<>>)
    /\ node' = <<>>
    /\ UNCHANGED <<pyvars, otherprocvars, docvars, treevars, node_specs, out_file>>

\* generator.analyzer.get_inheritance_order()
GetInheritanceOrder ==
    /\ generator.state = "constructed"
    /\ \E r \in {get_inheritance_order(generator.analyzer)} :
          /\ node' = r.order
          /\ call' = Call("get_inheritance_order", <<>>, r.outcome, <<>>, <<>>)
    /\ UNCHANGED <<pyvars, otherprocvars, docvars, treevars, genvars>>

\* generator.generate_module()
GenerateModule ==
    /\ generator.state = "constructed"
    /\ generator.passes < MaxPasses
    /\ \E r \in {generate_module(generator)} :
          /\ generator' = r.generator
          /\ node' = r.module
          /\ call' = Call("generate_module", <<>>, r.outcome, <<>>, <<>>)
    /\ UNCHANGED <<pyvars, otherprocvars, docvars, treevars, node_specs, out_file>>

\* generator.analyzer.get_parent(node_type)
GetParent(node_type) ==
    /\ generator.state = "constructed"
    /\ \E r \in {get_parent(generator.analyzer, node_type)} :
          /\ node' = r.parent
          /\ call' = Call("get_parent", <<node_type>>, r.outcome, <<>>, <<>>)
    /\ UNCHANGED <<pyvars, otherprocvars, docvars, treevars, genvars>>

\* generator._generate_field_property(field_name, field_spec)
GenerateFieldProperty(field_spec) ==
    /\ generator.state = "constructed"
    /\ node' = <<generate_field_property(generator, field_spec.types,
                                          field_spec.multiple, field_spec.required)>>
    /\ call' = Call("_generate_field_property", <<field_spec>>, "ok", <<>>, <<>>)
    /\ UNCHANGED <<pyvars, otherprocvars, docvars, treevars, genvars>>

\* generator.py: generate_from_node_types(json_path, out_path)
GeneratorGenerateFromNodeTypes ==
    /\ \E r \in {generator_generate_from_node_types(node_specs, out_file)} :
          /\ out_file' = r.file
          /\ call' = Call("generator.generate_from_node_types", <<>>, r.outcome,
                          <<>>, <<>>)
    /\ node' = <<>>
    /\ UNCHANGED <<pyvars, otherprocvars, docvars, treevars, node_specs, generator>>

\* generate_from_node_types(json_path, out_path)
GenerateFromNodeTypes ==
    /\ \E r \in {generate_from_node_types(node_specs, TokenSuffix, TSNodeName)} :
          /\ out_file' = IF r.outcome = "ok" THEN r.module ELSE out_file
          /\ call' = Call("generate_from_node_types", <<>>, r.outcome, <<>>, <<>>)
    /\ node' = <<>>
    /\ UNCHANGED <<pyvars, otherprocvars, docvars, treevars, node_specs, generator>>

InitGen ==
    /\ registry = EmptyDict
    /\ loaded = FALSE
    /\ sys_modules = {}
    /\ parsers = {}
    /\ node = <<>>
    /\ doc = "none"
    /\ text = <<>>
    /\ tree = None
    /\ root = None
    /\ call = NoCall
    /\ heap = <<>>
    /\ node_specs \in NodeSpecs
    /\ generator = NoGenerator
    /\ out_file \in OutFiles
    /\ NoPyObjects

NextGen ==
    \/ NewCodeGenerator
    \/ ResolveAllNames
    \/ GetInheritanceOrder
    \/ GenerateModule
    \/ GenerateFromNodeTypes
    \/ GeneratorGenerateFromNodeTypes
    \/ \E t \in ParentQueries : GetParent(t)
    \/ \E field_spec \in FieldSpecs : GenerateFieldProperty(field_spec)

SpecGen == InitGen /\ [][NextGen]_vars

(* ------------------- code wrappers (core/classes.py, ------------------- *)
(* ------------------------- core/assignments.py) ------------------------ *)
\* PyFunction(graphsitter_node=None, function_name=name,
\* return_type=return_type); an Optional[str] is <<>> for None and <<s>> for
\* the string s.
PyFunction(function_name, return_type) ==
    [function_name |-> function_name, parameters |-> <<>>,
     return_type |-> return_type, docstring |-> <<>>]

\* PyClass.get_method(name): the first method of that name, <<>> for None.
get_method(ms, name) ==
    LET at == {i \in 1..Len(ms) : ms[i].function_name = name}
    IN  IF at = {} THEN <<>> ELSE <<ms[CHOOSE i \in at : \A j \in at : i <= j]>>

\* PyClass.has_method(name)
has_method(ms, name) == get_method(ms, name) # <<>>

add_method_unguarded(ms, name, return_type) ==
    [outcome |-> "ok", methods |-> Append(ms, PyFunction(name, return_type)),
     method |-> <<PyFunction(name, return_type)>>]

\* PyClass.add_method(name, return_type), ms being self.methods: the
\* outcome, self.methods afterwards and the method returned.
add_method(ms, name, return_type) ==
    IF has_method(ms, name)
    THEN [outcome |-> "ValidationError", methods |-> ms, method |-> <<>>]
    ELSE [outcome |-> "ok", methods |-> Append(ms, PyFunction(name, return_type)),
          method |-> <<PyFunction(name, return_type)>>]

\* isinstance(value, t) for t among str, int and bool: a value is a record
\* of its class and its literal, and bool is a subclass of int.
isinstance(value, t) == value.class = t \/ (t = "int" /\ value.class = "bool")

validate_type_consistency_nobool(a) ==
    IF a.type_hint = <<>> \/ a.type_hint = <<"">> THEN TRUE
    ELSE IF a.type_hint = <<"str">> /\ ~isinstance(a.value, "str") THEN FALSE
    ELSE IF a.type_hint = <<"int">> /\ ~isinstance(a.value, "int") THEN FALSE
    ELSE TRUE

\* PyAssignment.validate_type_consistency()
validate_type_consistency(a) ==
    IF a.type_hint = <<>> \/ a.type_hint = <<"">> THEN TRUE
    ELSE IF a.type_hint = <<"str">> /\ ~isinstance(a.value, "str") THEN FALSE
    ELSE IF a.type_hint = <<"int">> /\ ~isinstance(a.value, "int") THEN FALSE
    ELSE IF a.type_hint = <<"bool">> /\ ~isinstance(a.value, "bool") THEN FALSE
    ELSE TRUE

\* PyAssignment(graphsitter_node=None, variable_name=..., value=...,
\* type_hint=...): the fields are set, then model_post_init raises
\* ValidationError when validate_type_consistency() is false.
PyAssignment(variable_name, value, type_hint) ==
    LET a == [variable_name |-> variable_name, value |-> value,
              type_hint |-> type_hint]
    IN  IF ~validate_type_consistency(a)
        THEN [outcome |-> "ValidationError", instance |-> <<>>]
        ELSE [outcome |-> "ok", instance |-> <<a>>]

\* PyAssignment.set_value(value)
set_value(a, value) == [a EXCEPT !.value = value]

\* PyAssignment.set_type_annotation(type_str)
set_type_annotation(a, type_str) == [a EXCEPT !.type_hint = <<type_str>>]

\* The method names and return types add_method is called with.
MethodNames == {"ping", "pong", "run"}
ReturnTypes == {<<>>, <<"str">>}

\* The values assigned: 'a', 42, 0, True and 1.5.
PyValues ==
    {[class |-> "str", literal |-> "'a'"],
     [class |-> "int", literal |-> "42"],
     [class |-> "int", literal |-> "0"],
     [class |-> "bool", literal |-> "True"],
     [class |-> "float", literal |-> "1.5"]}

\* The annotation strings, and the type hints of a constructor call: None or
\* one of the strings.
TypeStrings == {"str", "int", "bool", "float", ""}
TypeHints == {<<>>} \cup {<<t>> : t \in TypeStrings}

\* cls.add_method(name, return_type=return_type)
AddMethod(name, return_type) ==
    /\ \E r \in {add_method(methods, name, return_type)} :
          /\ methods' = r.methods
          /\ node' = r.method
          /\ call' = Call("add_method", <<name, return_type>>, r.outcome, <<>>, <<>>)
    /\ UNCHANGED <<otherprocvars, docvars, treevars, genvars, assignment>>

\* assignment = PyAssignment(variable_name="x", value=value, type_hint=type_hint)
NewPyAssignment(value, type_hint) ==
    /\ \E r \in {PyAssignment("x", value, type_hint)} :
          /\ assignment' = IF r.outcome = "ok" THEN r.instance ELSE assignment
          /\ node' = r.instance
          /\ call' = Call("PyAssignment", <<value, type_hint>>, r.outcome, <<>>, <<>>)
    /\ UNCHANGED <<otherprocvars, docvars, treevars, genvars, methods>>

\* assignment.set_value(value)
SetValue(value) ==
    /\ assignment # <<>>
    /\ assignment' = <<set_value(assignment[1], value)>>
    /\ node' = <<>>
    /\ call' = Call("set_value", <<value>>, "ok", <<>>, <<>>)
    /\ UNCHANGED <<otherprocvars, docvars, treevars, genvars, methods>>

\* assignment.set_type_annotation(type_str)
SetTypeAnnotation(type_str) ==
    /\ assignment # <<>>
    /\ assignment' = <<set_type_annotation(assignment[1], type_str)>>
    /\ node' = <<>>
    /\ call' = Call("set_type_annotation", <<type_str>>, "ok", <<>>, <<>>)
    /\ UNCHANGED <<otherprocvars, docvars, treevars, genvars, methods>>

\* A PyClass built with no methods or with one, and no PyAssignment yet.
InitPy ==
    /\ registry = EmptyDict
    /\ loaded = FALSE
    /\ sys_modules = {}
    /\ parsers = {}
    /\ node = <<>>
    /\ doc = "none"
    /\ text = <<>>
    /\ tree = None
    /\ root = None
    /\ call = NoCall
    /\ heap = <<>>
    /\ NoGeneration
    /\ methods \in {<<>>, <<PyFunction("ping", <<>>)>>}
    /\ assignment = <<>>

NextPy ==
    \/ \E name \in MethodNames, return_type \in ReturnTypes :
          AddMethod(name, return_type)
    \/ \E value \in PyValues, type_hint \in TypeHints :
          NewPyAssignment(value, type_hint)
    \/ \E value \in PyValues : SetValue(value)
    \/ \E type_str \in TypeStrings : SetTypeAnnotation(type_str)

SpecPy == InitPy /\ [][NextPy]_vars

(* ------------------------------- claims -------------------------------- *)

\* C1: when the external parser fails during edit (in tree.edit or in the
\* re-parse), the error reaches the caller and text, tree and root are all
\* what they were before the call.
C1_FailedEditKeepsDocument ==
    [][(call'.op = "edit" /\ call'.outcome # "ok")
         => (text' = text /\ tree' = tree /\ root' = root)]_vars

\* An edit whose offsets lie in the current buffer: 0 <= s <= e <= len.
InRange(txt, args) ==
    args[1] <= args[2] /\ args[2] <= Len(encode(txt))

\* C2: after an in-range edit (s, e, e2, new_text) completes,
\* text[s : s+len(new_text)] is new_text, the text before s and after e is
\* unchanged, and the root's text is the whole text.
C2_EditRoundTrip ==
    [][(call'.op = "edit" /\ call'.outcome = "ok" /\ InRange(text, call'.args))
         => LET s == call'.args[1]
                e == call'.args[2]
                new_text == call'.args[4]
            IN  /\ PySlice(text', s, s + Len(new_text)) = new_text
                /\ PySlice(text', 0, s) = PySlice(text, 0, s)
                /\ PySliceFrom(text', s + Len(new_text)) = PySliceFrom(text, e)
                /\ root'.text = text']_vars

\* C3: in every state a caller can observe, tree is the parser's result for
\* the bytes of the current text and root is the materialization of that
\* tree's root node against the same bytes.
C3_TripleConsistent ==
    doc = "constructed" =>
        /\ tree.src = encode(text)
        /\ tree.edits = 0
        /\ root = from_tree_sitter(registry, tree.root_node, encode(text))

\* C4: for 0 <= p <= len(buffer), _point_for_byte(p, buffer) is (row, column)
\* with row the number of newline bytes strictly before p and column p minus
\* the position just after the last newline before p (p when there is none).
C4_PointForByte ==
    (call.op = "_point_for_byte" /\ call.args[1] <= Len(encode(text))) =>
        LET buffer == encode(text)
            p == call.args[1]
            before == {i \in 0..p - 1 : buffer[i + 1] = NL}
            row == Cardinality(before)
            column == IF before = {} THEN p
                      ELSE p - (1 + CHOOSE i \in before : \A j \in before : j <= i)
        IN  call.pts = <<<<row, column>>>>

\* C4 witness: an offset after a newline and one further byte, in range.
C4_Witness ==
    /\ call.op = "_point_for_byte"
    /\ call.args[1] <= Len(encode(text))
    /\ call.pts = <<<<1, 1>>>>

\* The mappings registered during a call, from its trace.
RegisteredMaps(tr) ==
    {tr[i][2] : i \in {j \in 1..Len(tr) : tr[j][1] = "register"}}

Registers(c) == c.op \in {"register_subclasses", "ensure", "Parser"}

\* C5: a registration of m keeps every key that is not a key of m mapped to
\* the class it had, and every key of m is present afterwards: the table is
\* merged into, never replaced.
C5_RegistrationAdditive ==
    [][Registers(call') =>
         LET ms == RegisteredMaps(call'.trace)
         IN  /\ \A k \in DOMAIN registry :
                   (\A m \in ms : k \notin DOMAIN m)
                      => (k \in DOMAIN registry' /\ registry'[k] = registry[k])
             /\ \A m \in ms : \A k \in DOMAIN m : k \in DOMAIN registry']_vars

\* C5 witness: a registration after which the tables of two grammars coexist.
C5_Witness ==
    /\ call.op = "register_subclasses"
    /\ DOMAIN registry = {"module", "identifier", "source_file"}
    /\ registry["module"] = "ModuleNode"
    /\ registry["source_file"] = "SourceFileNode"

\* C6: registering the same table a second time leaves the registry as the
\* first registration left it.
C6_RegisterTwice ==
    [][(/\ call.op = "register_subclasses"
        /\ call'.op = "register_subclasses"
        /\ call'.args = call.args)
         => registry' = registry]_vars

\* C6 witness: the same table has been registered twice in a row on top of
\* another grammar's table.
C6_Witness ==
    /\ call.op = "register_subclasses"
    /\ call.rep >= 2
    /\ call.args = <<NodeMapOf["nodes_b"]>>
    /\ "module" \in DOMAIN registry

\* C7: once ensure has succeeded, a further ensure call imports nothing,
\* registers nothing and leaves the registry, the import cache and the loaded
\* flag as they were.
C7_EnsureOnce ==
    [][(loaded /\ call'.op = "ensure")
         => /\ call'.trace = <<>>
            /\ call'.outcome = "ok"
            /\ registry' = registry
            /\ sys_modules' = sys_modules
            /\ loaded']_vars

\* C7 witness: ensure("nodes_a") has been called again after it succeeded.
C7_Witness ==
    /\ call.op = "ensure"
    /\ call.args = <<"nodes_a">>
    /\ call.rep >= 2
    /\ call.trace = <<>>
    /\ loaded
    /\ registry = NodeMapOf["nodes_a"]

\* C8: when the artifact is missing, or present without NODE_MAP, ensure
\* raises, registers nothing and does not mark the bootstrap as loaded.
C8_BadArtifactRaises ==
    [][(call'.op = "ensure" /\ call'.args[1] \in {"missing", "bare"})
         => /\ call'.outcome = "RuntimeError"
            /\ registry' = registry
            /\ ~loaded']_vars

\* C9: every Parser built with module_name m has m's NODE_MAP in the registry
\* before a parse through it begins, a second Parser built with another
\* module_name included.
C9_ParserTableRegistered ==
    \A m \in parsers :
        HasNodeMap(m) => \A k \in DOMAIN NodeMapOf[m] : k \in DOMAIN registry

\* Whether some node of a raw tree has a type the registry lacks.
RECURSIVE HasUnregistered(_, _)
HasUnregistered(reg, raw) ==
    \/ raw.type \notin DOMAIN reg
    \/ \E i \in 1..Len(raw.children) : HasUnregistered(reg, raw.children[i])

\* Whether n is raw with every node of a registered type an instance of the
\* registered class, every other node an instance of the base class, and the
\* same children in number and order.
RECURSIVE Materialized(_, _, _)
Materialized(reg, raw, n) ==
    /\ n.type_name = raw.type
    /\ n.cls = IF raw.type \in DOMAIN reg THEN reg[raw.type] ELSE BaseClass
    /\ Len(n.children) = Len(raw.children)
    /\ \A i \in 1..Len(raw.children) : Materialized(reg, raw.children[i], n.children[i])

\* C10: materializing a raw tree with a type absent from the registry does
\* not raise; each node of an unregistered type is an instance of TSNode
\* itself and the rest of the tree is materialized as usual.
C10_UnregisteredFallsBack ==
    (call.op = "parse" /\ HasUnregistered(registry, call.args[2])) =>
        /\ call.outcome = "ok"
        /\ Len(node) = 1
        /\ Materialized(registry, call.args[2], node[1])

\* C10 witness: a registered root over an unregistered child that itself has
\* a registered child.
C10_Witness ==
    /\ call.op = "parse"
    /\ Len(node) = 1
    /\ node[1].cls = "ModuleNode"
    /\ Len(node[1].children) = 1
    /\ node[1].children[1].type_name = "comment"
    /\ node[1].children[1].cls = BaseClass
    /\ Len(node[1].children[1].children) = 1
    /\ node[1].children[1].children[1].cls = "ModuleNode"

\* Whether n carries what from_tree_sitter is to copy from raw, at every
\* level: kind, byte range, point range, is_named, the registered class where
\* the type is registered, and the children in number and order.
RECURSIVE CopiedFrom(_, _, _)
CopiedFrom(reg, raw, n) ==
    /\ raw.type \in DOMAIN reg => n.cls = reg[raw.type]
    /\ n.type_name = raw.type
    /\ n.start_byte = raw.start_byte /\ n.end_byte = raw.end_byte
    /\ n.start_point = raw.start_point /\ n.end_point = raw.end_point
    /\ n.is_named = raw.is_named
    /\ Len(n.children) = Len(raw.children)
    /\ \A i \in 1..Len(raw.children) : CopiedFrom(reg, raw.children[i], n.children[i])

RECURSIVE FieldsPropagated(_, _)
FieldsPropagated(raw, n) ==
    /\ Len(n.children) = Len(raw.children)
    /\ \A i \in 1..Len(raw.children) :
          /\ n.children[i].field_name = raw.children[i].field
          /\ FieldsPropagated(raw.children[i], n.children[i])

\* C12: each child of a materialized node carries the field name its raw
\* counterpart has in its parent.
C12_FieldNamePropagated ==
    call.op = "parse" =>
        /\ Len(node) = 1
        /\ FieldsPropagated(call.args[2], node[1])

\* Whether, at every node below and including n, each child's byte range lies
\* within its parent's and the children's start offsets do not decrease.
RECURSIVE WellNested(_)
WellNested(n) ==
    /\ \A i \in 1..Len(n.children) :
          /\ n.start_byte <= n.children[i].start_byte
          /\ n.children[i].start_byte <= n.children[i].end_byte
          /\ n.children[i].end_byte <= n.end_byte
          /\ WellNested(n.children[i])
    /\ \A i \in 1..Len(n.children) - 1 :
          n.children[i].start_byte <= n.children[i + 1].start_byte

\* C13: after create and after any sequence of edits, every node of the
\* document's tree contains the byte ranges of its children, whose start
\* offsets are non-decreasing in child order (the parser's raw trees having
\* this property).
C13_RangesNested ==
    doc = "constructed" => WellNested(root)

\* C13 witness: after an edit, a root with two children at different
\* offsets.
C13_Witness ==
    /\ doc = "constructed"
    /\ call.op = "edit"
    /\ call.outcome = "ok"
    /\ Len(root.children) = 2
    /\ root.children[1].start_byte < root.children[2].start_byte

\* C14: two nodes are equal exactly when they have the same kind and the
\* same byte range, whatever their text, children, field name and class;
\* here for the roots a document holds before and after an edit.
C14_EqualityByKindAndRange ==
    [][(doc = "constructed" /\ call'.op = "edit" /\ call'.outcome = "ok")
         => (node_eq(root, root') <=> node_hash(root) = node_hash(root'))]_vars

\* The objects a sequence of addresses names.
Range(l) == {l[i] : i \in 1..Len(l)}

\* C15: insert_child, replace_child and delete_child leave the receiver and
\* every other existing node as it was and return a new node that has the
\* receiver's other fields and whose children, apart from the one inserted
\* or put in place of another, are the receiver's own child objects in
\* their order.
C15_EditsShareStructure ==
    [][call'.op \in {"insert_child", "replace_child", "delete_child"} =>
         LET self == call'.args[1]
             kids == heap[self].children
             res == node'[1]
             got == heap'[res].children
         IN  /\ Len(heap') = Len(heap) + 1
             /\ \A i \in 1..Len(heap) : heap'[i] = heap[i]
             /\ res = Len(heap')
             /\ [heap'[res] EXCEPT !.children = <<>>] = [heap[self] EXCEPT !.children = <<>>]
             /\ call'.op = "insert_child" =>
                   \E pos \in 1..Len(kids) + 1 :
                      got = SubSeq(kids, 1, pos - 1) \o <<call'.args[3]>>
                              \o SubSeq(kids, pos, Len(kids))
             /\ call'.op = "replace_child" =>
                   /\ Len(got) = Len(kids)
                   /\ \A i \in 1..Len(kids) :
                         /\ got[i] \in {kids[i], call'.args[3]}
                         /\ kids[i] = call'.args[2] => got[i] = call'.args[3]
             /\ call'.op = "delete_child" =>
                   /\ got = SelectSeq(kids, LAMBDA c : c \in Range(got))
                   /\ call'.args[2] \notin Range(got)]_vars

\* C15 witness: a replace_child whose result shares one child with the
\* receiver and has the new child in place of the other, the one equal to
\* old_child.
C15_Witness ==
    /\ call.op = "replace_child"
    /\ call.args = <<5, 4, 3>>
    /\ Len(node) = 1
    /\ heap[5].children = <<1, 2>>
    /\ heap[node[1]].children = <<3, 2>>

\* C20: an accessor reads only the field_name tags of the node's children: a
\* multiple field gives all children tagged f in child order, a single
\* optional field the first child tagged f or None, a single required field
\* the first child tagged f or raises when there is none; the nodes are left
\* as they were.
C20_AccessorByTag ==
    [][call'.op = "field_property" =>
         LET self == call'.args[1]
             f == call'.args[2]
             kids == heap[self].children
             at == {i \in 1..Len(kids) : heap[kids[i]].field_name = f}
             first == CHOOSE i \in at : \A j \in at : i <= j
         IN  /\ heap' = heap
             /\ call'.args[3] =>
                   /\ call'.outcome = "ok"
                   /\ node' = SelectSeq(kids, LAMBDA c : heap[c].field_name = f)
             /\ (~call'.args[3] /\ at # {}) =>
                   /\ call'.outcome = "ok"
                   /\ node' = <<kids[first]>>
             /\ (~call'.args[3] /\ at = {} /\ ~call'.args[4]) =>
                   /\ call'.outcome = "ok"
                   /\ node' = <<>>
             /\ (~call'.args[3] /\ at = {} /\ call'.args[4]) =>
                   /\ call'.outcome = "ValueError"
                   /\ node' = <<>>]_vars

\* C20 witness: a single required accessor has returned the first of two
\* children tagged "name", which follows an untagged child.
C20_Witness ==
    /\ call.op = "field_property"
    /\ call.args = <<6, "name", FALSE, TRUE>>
    /\ call.outcome = "ok"
    /\ heap[6].children = <<3, 2, 1>>
    /\ node = <<2>>

C17_GenerationDeterministic ==
    [][(call.op = "generate_module" /\ call'.op = "generate_module") =>
         /\ call'.outcome = call.outcome
         /\ node' = node
         /\ generator'.class_names = generator.class_names]_vars

\* Whether sub is a subtype of sup, directly or through other descriptors.
RECURSIVE Below(_, _, _, _)
Below(specs, sub, sup, fuel) ==
    \/ <<sub, sup>> \in GraphEdges(specs)
    \/ /\ fuel > 0
       /\ \E mid \in {specs[i].type : i \in 1..Len(specs)} :
             <<sub, mid>> \in GraphEdges(specs) /\ Below(specs, mid, sup, fuel - 1)

Cyclic(specs) ==
    /\ \A i \in 1..Len(specs) : HasType(specs[i])
    /\ \E i \in 1..Len(specs) : Below(specs, specs[i].type, specs[i].type, Len(specs))

\* The position of a type in an order, 0 when it is not in it.
PosIn(order, t) ==
    IF \E i \in 1..Len(order) : order[i] = t
    THEN CHOOSE i \in 1..Len(order) : order[i] = t ELSE 0

\* C18: for an acyclic specification get_inheritance_order returns every
\* descriptor type once, each subtype before its supertypes and unrelated
\* types in declaration order.
C18_LeavesFirstOrder ==
    (call.op = "get_inheritance_order" /\ ~Cyclic(node_specs)) =>
        LET keys == DictKeys(node_specs)
        IN  /\ call.outcome = "ok"
            /\ Len(node) = Len(keys)
            /\ \A i \in 1..Len(keys) : PosIn(node, keys[i]) > 0
            /\ \A i, j \in 1..Len(keys) :
                  Below(node_specs, keys[i], keys[j], Len(keys))
                     => PosIn(node, keys[i]) < PosIn(node, keys[j])
            /\ \A i, j \in 1..Len(keys) :
                  (/\ i < j
                   /\ ~Below(node_specs, keys[i], keys[j], Len(keys))
                   /\ ~Below(node_specs, keys[j], keys[i], Len(keys)))
                     => PosIn(node, keys[i]) < PosIn(node, keys[j])

\* C19: for a specification whose subtype relation has a cycle, nothing
\* raises: the analyzer is built, get_inheritance_order returns the flat list
\* of the descriptor types, and generation writes the module.
C19_CycleFallsBack ==
    Cyclic(node_specs) =>
        /\ call.op \in {"CodeGenerator", "get_inheritance_order", "generate_module",
                        "generate_from_node_types"} => call.outcome = "ok"
        /\ call.op = "get_inheritance_order" => node = DictKeys(node_specs)
        /\ call.op = "generate_from_node_types" => out_file # <<>>

\* C26: an edit that completes has taken its steps in this order: the three
\* points computed against the text before the edit; tree.edit on the old
\* tree with those points; the splice of new_text at [start_byte,
\* old_end_byte); the parse of the new buffer with the edited old tree as
\* hint; the materialization of the root from the tree that parse returned.
C26_EditStepOrder ==
    [][(call'.op = "edit" /\ call'.outcome = "ok") =>
         LET old == encode(text)
             pts == <<point_for_byte(call'.args[1], old),
                      point_for_byte(call'.args[2], old),
                      point_for_byte(call'.args[3], old)>>
             spliced == Splice(text, call'.args[1], call'.args[2], call'.args[4])
         IN  /\ call'.trace = <<<<"tree.edit", tree.src, pts>>,
                                <<"splice", spliced>>,
                                <<"parse", encode(spliced), tree.src>>,
                                <<"materialize", tree'.src>>>>
             /\ text' = spliced
             /\ root' = from_tree_sitter(registry, tree'.root_node, encode(spliced))]_vars

\* C26 witness: an edit has replaced a newline by "a", so that the end of the
\* old range is on row 1 in the old text and on row 0 in the new one.
C26_Witness ==
    /\ call.op = "edit"
    /\ call.outcome = "ok"
    /\ call.args = <<0, 1, 1, <<97>>>>
    /\ call.pts = <<<<0, 0>>, <<1, 0>>, <<1, 0>>>>
    /\ text = <<97>>

\* The lines of a module text that are NODE_MAP entries for the type t.
NodeMapEntries(module, t) ==
    {k \in 1..Len(module) :
        /\ Len(module[k]) = 3
        /\ module[k][1] = "NODE_MAP"
        /\ module[k][2] = t}

\* C21: generate_module returns a module text that has, for every descriptor
\* type, exactly one NODE_MAP entry keyed by the type, and the entry maps to
\* the identifier resolved for the type.
C21_NodeMapCoversTypes ==
    call.op = "generate_module" =>
        /\ call.outcome = "ok"
        /\ Len(node) = 1
        /\ \A i \in 1..Len(DictKeys(node_specs)) :
              LET entries == NodeMapEntries(node[1], DictKeys(node_specs)[i])
              IN  /\ Cardinality(entries) = 1
                  /\ \A k \in entries : node[1][k][3] = generator.class_names[i]

\* C22: a generation over a specification in which some descriptor has no
\* "type" key ends in an error and leaves the output file as it was: not
\* created, not modified, not partially written; for both generators.
C22_UntypedDescriptorRejected ==
    [][(/\ call'.op \in {"generate_from_node_types",
                         "generator.generate_from_node_types"}
        /\ \E i \in 1..Len(node_specs) : ~HasType(node_specs[i]))
         => (call'.outcome # "ok" /\ out_file' = out_file)]_vars

\* C22 witness: generator.py's generate_from_node_types has raised KeyError
\* on a specification whose second descriptor has no type, after the class
\* for the first was built, and the earlier output file is still there.
C22_Witness ==
    /\ call.op = "generator.generate_from_node_types"
    /\ call.outcome = "KeyError"
    /\ Len(node_specs) = 2
    /\ HasType(node_specs[1])
    /\ ~HasType(node_specs[2])
    /\ out_file = <<<<<<"NODE_MAP = {}">>>>>>

\* C23: the accessor generated for a field whose only type names no
\* descriptor is generated without error and is typed with the base class the
\* generator was configured with (in List[...] or Optional[...] as the field
\* asks).
C23_DanglingFieldTypeUsesBase ==
    (call.op = "_generate_field_property" /\ call.args[1].types = <<<<"x">>>>) =>
        /\ call.outcome = "ok"
        /\ node = <<wrap_hint(generator.base_class, call.args[1].multiple,
                              call.args[1].required)>>

\* The supertypes of t in the order _build_graph adds their edges: the
\* descriptors, in dict order, that list t among their subtypes.
SupertypesOf(specs, t) ==
    SelectSeq(DictKeys(specs),
              LAMBDA sup : \E k \in 1..Len(DictValue(specs, sup).subtypes) :
                              DictValue(specs, sup).subtypes[k] = t)

\* C27: get_parent(t) raises nothing; it returns None when no descriptor
\* lists t as a subtype, and otherwise the supertype of t whose edge was
\* added first.
C27_GetParentFirstSupertype ==
    call.op = "get_parent" =>
        /\ call.outcome = "ok"
        /\ node = IF SupertypesOf(node_specs, call.args[1]) = <<>> THEN <<>>
                  ELSE <<Head(SupertypesOf(node_specs, call.args[1]))>>

\* C28: a second generate_module on the same generator returns the module
\* text the first returned, and every type keeps the identifier it had.
C28_NoResolverLeak ==
    [][(call.op = "generate_module" /\ call'.op = "generate_module") =>
         /\ call.outcome = "ok"
         /\ call'.outcome = "ok"
         /\ node' = node
         /\ \A i \in 1..Len(generator.class_names) :
               generator'.class_names[i] = generator.class_names[i]]_vars

\* The class lines of a module text.
ClassLinesOf(module) ==
    {k \in 1..Len(module) : Len(module[k]) = 3 /\ module[k][1] = "class"}

\* C29: generate_module returns a module text in which every class that
\* derives from another generated class comes after the class line of that
\* parent.
C29_ParentDefinedFirst ==
    call.op = "generate_module" =>
        /\ call.outcome = "ok"
        /\ Len(node) = 1
        /\ \A k \in ClassLinesOf(node[1]) :
              (\E j \in ClassLinesOf(node[1]) : node[1][j][2] = node[1][k][3])
                 => \E j \in ClassLinesOf(node[1]) :
                       j < k /\ node[1][j][2] = node[1][k][3]

\* C24: add_method with a name the class already has raises ValidationError
\* and leaves methods as it was; with a new name it appends exactly one
\* method, of that name and return type; and afterwards no two methods of
\* the class have the same function_name.
C24_AddMethodKeepsNamesUnique ==
    [][call'.op = "add_method" =>
         /\ IF \E i \in 1..Len(methods) : methods[i].function_name = call'.args[1]
            THEN call'.outcome = "ValidationError" /\ methods' = methods
            ELSE /\ call'.outcome = "ok"
                 /\ Len(methods') = Len(methods) + 1
                 /\ SubSeq(methods', 1, Len(methods)) = methods
                 /\ methods'[Len(methods')].function_name = call'.args[1]
                 /\ methods'[Len(methods')].return_type = call'.args[2]
         /\ \A i, j \in 1..Len(methods') :
               methods'[i].function_name = methods'[j].function_name => i = j]_vars

\* C24 witness: add_method("ping") has been refused on a class that has
\* three methods, ping among them.
C24_Witness ==
    /\ call.op = "add_method"
    /\ call.args[1] = "ping"
    /\ call.outcome = "ValidationError"
    /\ Len(methods) = 3
    /\ \E i \in 1..Len(methods) : methods[i].function_name = "ping"

\* The pairs (class of the value, hint) for which the value is of the hinted
\* type; a bool is an int.
OfHintedType ==
    {<<"str", "str">>, <<"int", "int">>, <<"bool", "bool">>, <<"bool", "int">>}

\* C25: constructing a PyAssignment with type_hint 'str', 'int' or 'bool'
\* and a value not of that type raises ValidationError and yields no
\* instance; with no type_hint, or a value of the hinted type, it yields the
\* instance.
C25_ConstructionChecksHint ==
    call.op = "PyAssignment" =>
        LET value == call.args[1]
            type_hint == call.args[2]
        IN  IF type_hint = <<>>
            THEN call.outcome = "ok" /\ node # <<>> /\ node[1].value = value
            ELSE IF type_hint[1] \in {"str", "int", "bool"}
            THEN IF <<value.class, type_hint[1]>> \in OfHintedType
                 THEN /\ call.outcome = "ok"
                      /\ node # <<>>
                      /\ node[1].value = value
                      /\ node[1].type_hint = type_hint
                 ELSE call.outcome = "ValidationError" /\ node = <<>>
            ELSE TRUE

\* C25 witness: PyAssignment(value=42, type_hint="bool") has raised
\* ValidationError.
C25_Witness ==
    /\ call.op = "PyAssignment"
    /\ call.args = <<[class |-> "int", literal |-> "42"], <<"bool">>>>
    /\ call.outcome = "ValidationError"
    /\ node = <<>>

\* C30: whatever set_value and set_type_annotation calls were made on it, a
\* PyAssignment is consistent: validate_type_consistency() is true.
C30_AssignmentStaysConsistent ==
    assignment # <<>> => validate_type_consistency(assignment[1])

====
